---- MODULE Spec2Model ----
(***************************************************************************)
(* Model of product-tagger.js: the reconciliation of a list of spreadsheet *)
(* rows against a remote catalog (findProduct, updateProductTags and the   *)
(* row loop of processTopProducts).                                        *)
(*                                                                         *)
(* Strings whose characters matter (titles, vendors, product types) are    *)
(* sequences of one-character strings, so that trimming and escaping are   *)
(* computed character by character.  Tags are compared only as wholes and  *)
(* are atoms.                                                              *)
(***************************************************************************)
EXTENDS Integers, Sequences, FiniteSets, TLC

(***************************************************************************)
(* Bounds of the model.                                                    *)
(***************************************************************************)
MaxRows == 2        \* rows of the input file
MaxEdges == 2       \* candidates in one search response
MaxLen == 3         \* characters of a title given to the sanitizer
MaxCalls == 2       \* successive calls of updateProductTags on one entry
MaxTags == 2        \* tags an entry carries when it is found
MaxCols == 3        \* columns of a record of the input file

(***************************************************************************)
(* Characters.                                                             *)
(***************************************************************************)
SQ == "'"
DQ == "dquote"
BS == "bslash"
SP == " "

TAG_NAME == "api-top-seller"

\* Every sequence over S of length at most n.
SeqsUpTo(S, n) == UNION {[1..k -> S] : k \in 0..n}

(***************************************************************************)
(* String.prototype.trim: drops leading and trailing white space.          *)
(***************************************************************************)
RECURSIVE TrimLeft(_)
TrimLeft(s) ==
    IF s = <<>> THEN <<>>
    ELSE IF Head(s) = SP THEN TrimLeft(Tail(s)) ELSE s

RECURSIVE TrimRight(_)
TrimRight(s) ==
    IF s = <<>> THEN <<>>
    ELSE IF s[Len(s)] = SP THEN TrimRight(SubSeq(s, 1, Len(s) - 1)) ELSE s

Trim(s) == TrimRight(TrimLeft(s))

(***************************************************************************)
(* String.prototype.replace with a global one-character pattern: every     *)
(* occurrence of c in s is replaced by the string r, left to right, and    *)
(* the replacement text is not scanned again.                              *)
(***************************************************************************)
RECURSIVE ReplaceAll(_, _, _)
ReplaceAll(s, c, r) ==
    IF s = <<>> THEN <<>>
    ELSE (IF Head(s) = c THEN r ELSE <<Head(s)>>) \o ReplaceAll(Tail(s), c, r)

(***************************************************************************)
(* cleanAndEscape of findProduct: three global replacements in the order   *)
(* of the code (single quotes, double quotes, backslashes), then trim.     *)
(***************************************************************************)
cleanAndEscape(str) ==
    Trim(ReplaceAll(ReplaceAll(ReplaceAll(str, SQ, <<BS, SQ>>),
                               DQ, <<BS, DQ>>),
                    BS, <<BS, BS>>))

\* const searchQuery = `title:"${cleanTitle}"`
searchQueryOf(title) == <<"title:", DQ>> \o cleanAndEscape(title) \o <<DQ>>

(***************************************************************************)
(* Catalog entries.  An entry is the node of one edge of a search          *)
(* response: id, title, vendor, productType, tags.  The tags value is an   *)
(* array of tags or some value that is not an array; NullStr stands for a  *)
(* field that is null in a response that does not follow the schema.       *)
(***************************************************************************)
NullStr == <<"null">>

ArrayOf(items) == [isArray |-> TRUE, items |-> items]
NotArray == [isArray |-> FALSE, items |-> <<>>]

\* A product id as the service writes it: a fixed prefix, then a number.
GID_PREFIX == "gid://shopify/Product/"
Gid(n) == <<GID_PREFIX, n>>

Entry(id, title, vendor, productType, tags) ==
    [id |-> id, title |-> title, vendor |-> vendor,
     productType |-> productType, tags |-> tags]

\* The value null of a product reference.
Null == Entry(<<"null">>, <<>>, <<>>, <<>>, NotArray)

Row(title, vendor, productType) ==
    [title |-> title, vendor |-> vendor, productType |-> productType]

(***************************************************************************)
(* What client.request can do for the search: resolve with a response      *)
(* holding a list of edges, resolve with a value that lacks                *)
(* products.edges, or reject with an error.                                *)
(***************************************************************************)
Response(edges) == [kind |-> "response", edges |-> edges]
Malformed == [kind |-> "malformed", edges |-> <<>>]
RequestError == [kind |-> "error", edges |-> <<>>]

(***************************************************************************)
(* The filter predicate of findProduct, lines 84-91.                       *)
(***************************************************************************)
MatchesTitleVendorOnly(product, title, vendor, productType) ==
    /\ product.title = title
    /\ Trim(product.vendor) = Trim(vendor)

Matches(product, title, vendor, productType) ==
    /\ product.title = title
    /\ Trim(product.vendor) = Trim(vendor)
    /\ Trim(product.productType) = Trim(productType)

(***************************************************************************)
(* The predicate raises a TypeError on an edge whose field is null when    *)
(* the evaluation of && reaches the call of trim on it.                    *)
(***************************************************************************)
EdgeThrows(product, title, vendor, productType) ==
    /\ product.title = title
    /\ \/ product.vendor = NullStr
       \/ /\ Trim(product.vendor) = Trim(vendor)
          /\ product.productType = NullStr

\* edges.filter(...): the edges that pass, in response order.
FilterMatches(edges, title, vendor, productType) ==
    SelectSeq(edges, LAMBDA p : Matches(p, title, vendor, productType))

(***************************************************************************)
(* findProduct, lines 78-112, as the value it returns for one outcome of   *)
(* the search request.  threw is TRUE when an exception leaves the         *)
(* function; every exception of the try block is caught at line 106 and    *)
(* turned into null.                                                       *)
(***************************************************************************)
Returned(node) == [threw |-> FALSE, node |-> node]
Thrown == [threw |-> TRUE, node |-> Null]

findProductLastMatch(outcome, title, vendor, productType) ==
    LET m == FilterMatches(outcome.edges, title, vendor, productType)
    IN  IF outcome.kind = "response" /\ Len(m) > 0
        THEN Returned(m[Len(m)]) ELSE Returned(Null)

findProductNoFilter(outcome, title, vendor, productType) ==
    IF outcome.kind = "response" /\ Len(outcome.edges) > 0
    THEN Returned(outcome.edges[1]) ELSE Returned(Null)

findProductRethrows(outcome, title, vendor, productType) ==
    LET m == FilterMatches(outcome.edges, title, vendor, productType)
    IN  IF outcome.kind # "response" THEN Thrown
        ELSE IF Len(m) > 0 THEN Returned(m[1]) ELSE Returned(Null)

findProduct(outcome, title, vendor, productType) ==
    IF outcome.kind # "response" THEN Returned(Null)
    ELSE IF Len(outcome.edges) > 0
    THEN IF \E k \in 1..Len(outcome.edges) :
                EdgeThrows(outcome.edges[k], title, vendor, productType)
         THEN Returned(Null)
         ELSE LET matches == FilterMatches(outcome.edges, title, vendor,
                                           productType)
              IN  IF Len(matches) > 0 THEN Returned(matches[1])
                  ELSE Returned(Null)
    ELSE Returned(Null)

(***************************************************************************)
(* updateProductTags, lines 134-150: the tag list of the request.          *)
(* currentTags is product.tags itself when that is an array, so the push   *)
(* of line 140 also changes the entry the caller holds; otherwise it is a  *)
(* fresh empty array and the entry is left as it was.                      *)
(***************************************************************************)
Includes(tags, t) == \E k \in 1..Len(tags) : tags[k] = t

currentTagsOf(product) ==
    IF product.tags.isArray THEN product.tags.items ELSE <<>>

requestTagsAlwaysPush(product) == Append(currentTagsOf(product), TAG_NAME)

requestTagsDelta(product) == <<TAG_NAME>>

requestTags(product) ==
    IF Includes(currentTagsOf(product), TAG_NAME)
    THEN currentTagsOf(product)
    ELSE Append(currentTagsOf(product), TAG_NAME)

\* The entry as the caller sees it once lines 135-141 have run.
productAfterPush(product) ==
    IF product.tags.isArray
    THEN [product EXCEPT !.tags = ArrayOf(requestTags(product))]
    ELSE product

(***************************************************************************)
(* What client.request can do for the update, and the value                *)
(* updateProductTags returns for it (lines 152-164).                       *)
(***************************************************************************)
UpdateOutcomes == {"ok", "userErrors", "error"}

updateReturns(outcome) == outcome = "ok"

(***************************************************************************)
(* State.                                                                  *)
(*   Row loop of processTopProducts: products, pc, processed, matched,     *)
(*   tagged, successfullyTagged, notFound, shopifyProduct, reports; rows   *)
(*   and events record, for each row and in order, what happened, and      *)
(*   inflight holds the requests sent to the service and not yet settled.  *)
(*   One call of cleanAndEscape: sTitle, sClean, sQuery, sPc.              *)
(*   One call of findProduct: fRow, fOutcome, fResult, fPc.                *)
(*   Successive calls of updateProductTags on one entry: uProduct,         *)
(*   uPersisted (the tag list the service holds for it), uCalls.           *)
(*   The 'data' handler of the CSV parser on one record: nRow, nProducts,  *)
(*   nPc.                                                                  *)
(***************************************************************************)
VARIABLES products, pc, processed, matched, tagged, successfullyTagged,
          notFound, shopifyProduct, reports, rows, events, inflight,
          sTitle, sClean, sQuery, sPc,
          fRow, fOutcome, fResult, fPc,
          uProduct, uPersisted, uCalls,
          nRow, nProducts, nPc

driverVars == <<products, pc, processed, matched, tagged, successfullyTagged,
                notFound, shopifyProduct, reports, rows, events, inflight>>
sanVars == <<sTitle, sClean, sQuery, sPc>>
findVars == <<fRow, fOutcome, fResult, fPc>>
updVars == <<uProduct, uPersisted, uCalls>>
normVars == <<nRow, nProducts, nPc>>
vars == <<driverVars, sanVars, findVars, updVars, normVars>>

(***************************************************************************)
(* generateReports, lines 185-238: the rows of the two report files (a     *)
(* file is written only for a ledger that is not empty) and the summary    *)
(* printed on the console.  calls counts the invocations.                  *)
(***************************************************************************)
NoReports == [calls |-> 0, taggedFile |-> FALSE, taggedRows |-> <<>>,
              notFoundFile |-> FALSE, notFoundRows |-> <<>>,
              summaryTag |-> "", summaryTagged |-> 0, summaryNotFound |-> 0]

ReportRow(gid, title, productType, vendor) ==
    [gid |-> gid, title |-> title, productType |-> productType,
     vendor |-> vendor]

\* product.id.replace('gid://shopify/Product/', '')
stripGidPrefix(id) ==
    IF Len(id) > 0 /\ Head(id) = GID_PREFIX THEN Tail(id) ELSE id

successData(taggedProducts) ==
    [k \in 1..Len(taggedProducts) |->
        ReportRow(stripGidPrefix(taggedProducts[k].product.id),
                  taggedProducts[k].product.title,
                  taggedProducts[k].product.productType,
                  taggedProducts[k].product.vendor)]

notFoundData(notFoundProducts) ==
    [k \in 1..Len(notFoundProducts) |->
        ReportRow(<<>>, notFoundProducts[k].product.title,
                  notFoundProducts[k].product.productType,
                  notFoundProducts[k].product.vendor)]

generateReportsCountsBoth(taggedProducts, notFoundProducts) ==
    [calls |-> 1,
     taggedFile |-> Len(taggedProducts) > 0,
     taggedRows |-> successData(taggedProducts),
     notFoundFile |-> Len(notFoundProducts) > 0,
     notFoundRows |-> notFoundData(notFoundProducts),
     summaryTag |-> TAG_NAME,
     summaryTagged |-> Len(taggedProducts) + Len(notFoundProducts),
     summaryNotFound |-> Len(notFoundProducts)]

generateReportsAlwaysWrites(taggedProducts, notFoundProducts) ==
    [calls |-> 1,
     taggedFile |-> TRUE,
     taggedRows |-> successData(taggedProducts),
     notFoundFile |-> TRUE,
     notFoundRows |-> notFoundData(notFoundProducts),
     summaryTag |-> TAG_NAME,
     summaryTagged |-> Len(taggedProducts),
     summaryNotFound |-> Len(notFoundProducts)]

generateReports(taggedProducts, notFoundProducts) ==
    [calls |-> 1,
     taggedFile |-> Len(taggedProducts) > 0,
     taggedRows |-> IF Len(taggedProducts) > 0
                    THEN successData(taggedProducts) ELSE <<>>,
     notFoundFile |-> Len(notFoundProducts) > 0,
     notFoundRows |-> IF Len(notFoundProducts) > 0
                      THEN notFoundData(notFoundProducts) ELSE <<>>,
     summaryTag |-> TAG_NAME,
     summaryTagged |-> Len(taggedProducts),
     summaryNotFound |-> Len(notFoundProducts)]

DriverIdle ==
    /\ products = <<>> /\ pc = "idle" /\ processed = 0 /\ matched = 0
    /\ tagged = 0 /\ successfullyTagged = <<>> /\ notFound = <<>>
    /\ shopifyProduct = Null /\ reports = NoReports
    /\ rows = <<>> /\ events = <<>> /\ inflight = {}

SanIdle == sTitle = <<>> /\ sClean = <<>> /\ sQuery = <<>> /\ sPc = "idle"

FindIdle ==
    /\ fRow = Row(<<>>, <<>>, <<>>) /\ fOutcome = Malformed
    /\ fResult = Returned(Null) /\ fPc = "idle"

UpdIdle == uProduct = Null /\ uPersisted = <<>> /\ uCalls = <<>>

NormIdle == nRow = <<>> /\ nProducts = <<>> /\ nPc = "idle"

(***************************************************************************)
(* The sanitizer on its own: a title as the row normalizer delivers it     *)
(* (non-empty and trimmed, lines 273-275), then lines 71-74.               *)
(***************************************************************************)
SanChars == {SQ, DQ, BS, SP, "a"}

SanTitles == {t \in SeqsUpTo(SanChars, MaxLen) : t # <<>> /\ Trim(t) = t}

InitSan ==
    /\ sTitle \in SanTitles /\ sClean = <<>> /\ sQuery = <<>> /\ sPc = "call"
    /\ DriverIdle /\ FindIdle /\ UpdIdle /\ NormIdle

BuildQuery ==
    /\ sPc = "call"
    /\ sClean' = cleanAndEscape(sTitle)
    /\ sQuery' = searchQueryOf(sTitle)
    /\ sPc' = "built"
    /\ UNCHANGED <<sTitle, driverVars, findVars, updVars, normVars>>

NextSan == BuildQuery

SpecSan == InitSan /\ [][NextSan]_vars

(***************************************************************************)
(* findProduct on its own: one row, one outcome of the search request.     *)
(***************************************************************************)
FindTitles == {<<"A">>, <<"A", SP>>, <<"B">>}
FindVendors == {<<"v">>, <<"v", SP>>, <<"w">>, NullStr}
FindTypes == {<<"t">>, <<SP, "t">>, <<"u">>}

FindEntries ==
    {Entry(Gid("1"), t, v, p, ArrayOf(<<>>)) :
        t \in FindTitles, v \in FindVendors, p \in FindTypes}

FindOutcomes ==
    {Response(e) : e \in SeqsUpTo(FindEntries, MaxEdges)}
        \cup {Malformed, RequestError}

FindRows == {Row(t, <<"v">>, p) : t \in {<<"A">>, <<"B">>},
                                  p \in {<<"t">>, <<"u">>}}

InitFind ==
    /\ fRow \in FindRows /\ fOutcome \in FindOutcomes
    /\ fResult = Returned(Null) /\ fPc = "call"
    /\ DriverIdle /\ SanIdle /\ UpdIdle /\ NormIdle

FindCall ==
    /\ fPc = "call"
    /\ fResult' = findProduct(fOutcome, fRow.title, fRow.vendor,
                              fRow.productType)
    /\ fPc' = "returned"
    /\ UNCHANGED <<fRow, fOutcome, driverVars, sanVars, updVars, normVars>>

NextFind == FindCall

SpecFind == InitFind /\ [][NextFind]_vars

(***************************************************************************)
(* updateProductTags called again and again on the entry object a search   *)
(* returned.  The service replaces the whole tag list of the entry when    *)
(* it accepts an update; a request that fails in transport may or may not  *)
(* have been applied.                                                      *)
(***************************************************************************)
Tags == {"sale", "new", TAG_NAME}

NoDuplicates(s) == \A i, j \in 1..Len(s) : s[i] = s[j] => i = j

TagLists == {s \in SeqsUpTo(Tags, MaxTags) : NoDuplicates(s)}

UpdEntries ==
    {Entry(Gid("1"), <<"A">>, <<"v">>, <<"t">>, tg) :
        tg \in {ArrayOf(s) : s \in TagLists} \cup {NotArray}}

InitUpd ==
    /\ uProduct \in UpdEntries
    /\ uPersisted = currentTagsOf(uProduct)
    /\ uCalls = <<>>
    /\ DriverIdle /\ SanIdle /\ FindIdle /\ NormIdle

UpdateCall ==
    /\ Len(uCalls) < MaxCalls
    /\ \E outcome \in UpdateOutcomes, applied \in BOOLEAN :
        /\ outcome = "ok" => applied
        /\ outcome = "userErrors" => ~applied
        /\ uProduct' = productAfterPush(uProduct)
        /\ uPersisted' = IF applied THEN requestTags(uProduct)
                         ELSE uPersisted
        /\ uCalls' = Append(uCalls,
                            [id |-> uProduct.id,
                             before |-> currentTagsOf(uProduct),
                             tags |-> requestTags(uProduct),
                             outcome |-> outcome,
                             success |-> updateReturns(outcome),
                             persisted |-> uPersisted'])
    /\ UNCHANGED <<driverVars, sanVars, findVars, normVars>>

NextUpd == UpdateCall

SpecUpd == InitUpd /\ [][NextUpd]_vars

(***************************************************************************)
(* The 'data' handler of lines 256-290 on one record of the file.  A       *)
(* record is the list of its (header, value) pairs in column order, with   *)
(* distinct headers.  The parser trims a field that is not quoted and      *)
(* leaves the white space of a quoted field, so a value may be blank or    *)
(* padded.                                                                 *)
(***************************************************************************)
H_Title == <<"T", "i", "t", "l", "e">>
H_Subtitle == <<"S", "u", "b", "t", "i", "t", "l", "e">>
H_Vendor == <<"V", "E", "N", "D", "O", "R">>
H_Type == <<"T", "y", "p", "e">>
H_Price == <<"P", "r", "i", "c", "e">>

Headers == {H_Title, H_Subtitle, H_Vendor, H_Type, H_Price}

Values == {<<>>, <<SP>>, <<"x">>, <<SP, "x">>}

\* String.prototype.toLowerCase on the letters the headers use.
LowerOf(c) ==
    CASE c = "T" -> "t" [] c = "S" -> "s" [] c = "V" -> "v" [] c = "E" -> "e"
      [] c = "N" -> "n" [] c = "D" -> "d" [] c = "O" -> "o" [] c = "R" -> "r"
      [] c = "P" -> "p" [] OTHER -> c

toLowerCase(s) == [k \in 1..Len(s) |-> LowerOf(s[k])]

\* String.prototype.includes
includes(s, sub) ==
    \E k \in 1..(Len(s) - Len(sub) + 1) : SubSeq(s, k, k + Len(sub) - 1) = sub

Records ==
    {r \in SeqsUpTo([key : Headers, value : Values], MaxCols) :
        \A a, b \in 1..Len(r) : r[a].key = r[b].key => a = b}

\* Object.keys(row).find(k => k.toLowerCase().includes(word)): the position
\* of the first such key, 0 when there is none.
findKey(row, word) ==
    LET hits == {k \in 1..Len(row) : includes(toLowerCase(row[k].key), word)}
    IN  IF hits = {} THEN 0 ELSE CHOOSE k \in hits : \A j \in hits : k <= j

\* Lines 264-273: the value under a key that was found, and its truth
\* value in the test of line 273 (null and the empty string are falsy).
truthy(row, k) == k # 0 /\ row[k].value # <<>>

W_title == <<"t", "i", "t", "l", "e">>
W_vendor == <<"v", "e", "n", "d", "o", "r">>
W_type == <<"t", "y", "p", "e">>

InitNorm ==
    /\ nRow \in Records /\ nProducts = <<>> /\ nPc = "data"
    /\ DriverIdle /\ SanIdle /\ FindIdle /\ UpdIdle

\* Lines 256-289.
OnData ==
    /\ nPc = "data"
    /\ LET titleKey == findKey(nRow, W_title)
           vendorKey == findKey(nRow, W_vendor)
           typeKey == findKey(nRow, W_type)
       IN  nProducts' =
               IF /\ truthy(nRow, titleKey) /\ truthy(nRow, vendorKey)
                  /\ truthy(nRow, typeKey)
               THEN Append(nProducts, Row(Trim(nRow[titleKey].value),
                                          Trim(nRow[vendorKey].value),
                                          Trim(nRow[typeKey].value)))
               ELSE nProducts
    /\ nPc' = "read"
    /\ UNCHANGED <<nRow, driverVars, sanVars, findVars, updVars>>

NextNorm == OnData

SpecNorm == InitNorm /\ [][NextNorm]_vars

(***************************************************************************)
(* The run of processTopProducts from line 301 on.  products is the list   *)
(* the 'data' handler built; every field of a row is trimmed.  The         *)
(* catalog service answers a search with any list of at    *)
(* most MaxEdges of its entries, or with a malformed value, or with an     *)
(* error.                                                                  *)
(***************************************************************************)
DriverRows ==
    {Row(<<"A">>, <<"v">>, <<"t">>), Row(<<"B">>, <<"v">>, <<"t">>),
     Row(<<"A">>, <<"v">>, <<"u">>)}

DriverCatalog ==
    {Entry(Gid("1"), <<"A">>, <<"v">>, <<"t">>, ArrayOf(<<"sale">>)),
     Entry(Gid("2"), <<"A">>, <<"v", SP>>, <<"t">>,
           ArrayOf(<<"sale", TAG_NAME>>)),
     Entry(Gid("3"), <<"A">>, <<"v">>, <<"u">>, ArrayOf(<<>>)),
     Entry(Gid("4"), <<"B">>, <<"v">>, <<SP, "t">>, NotArray),
     Entry(Gid("5"), <<"A", SP>>, <<"v">>, <<"t">>, ArrayOf(<<>>)),
     Entry(Gid("6"), <<"A">>, NullStr, <<"t">>, ArrayOf(<<>>))}

SearchOutcomes ==
    {Response(e) : e \in SeqsUpTo(DriverCatalog, MaxEdges)}
        \cup {Malformed, RequestError}

Event(ev, row, id, tags) == [ev |-> ev, row |-> row, id |-> id, tags |-> tags]

\* How the search of a row ended: "response" for a response the code could
\* read, "malformed" for one that made it throw (no products.edges, or a
\* null field reached by the filter), "error" for a failed request.
SearchKind(outcome, product) ==
    IF /\ outcome.kind = "response"
       /\ \E k \in 1..Len(outcome.edges) :
             EdgeThrows(outcome.edges[k], product.title, product.vendor,
                        product.productType)
    THEN "malformed" ELSE outcome.kind

\* A request the service has received and not answered yet.
Request(kind, row) == [kind |-> kind, row |-> row]

\* Line 324: the loop awaits updateProductTags, so it stays at the call
\* until the update request has settled.
awaitUpdateNotAwaited == "delay"

awaitUpdate == "awaitUpdate"

RowInfo(search, snapshot, state) ==
    [search |-> search, snapshot |-> snapshot, state |-> state]

Init ==
    /\ products \in SeqsUpTo(DriverRows, MaxRows)
    /\ pc = "start"
    /\ processed = 0 /\ matched = 0 /\ tagged = 0
    /\ successfullyTagged = <<>> /\ notFound = <<>>
    /\ shopifyProduct = Null
    /\ reports = NoReports
    /\ rows = [i \in 1..Len(products) |-> RowInfo("none", Null, "Pending")]
    /\ events = <<>>
    /\ inflight = {}
    /\ SanIdle /\ FindIdle /\ UpdIdle /\ NormIdle

others == <<sanVars, findVars, updVars, normVars>>

\* Lines 301-304: nothing to do for an empty list.
CheckEmpty ==
    /\ pc = "start"
    /\ pc' = IF Len(products) = 0 THEN "exit" ELSE "loop"
    /\ UNCHANGED <<products, processed, matched, tagged, successfullyTagged,
                   notFound, shopifyProduct, reports, rows, events, inflight,
                   others>>

\* Lines 313-316: the loop takes the next row.
NextRow ==
    /\ pc = "loop" /\ processed < Len(products)
    /\ processed' = processed + 1
    /\ rows' = [rows EXCEPT ![processed + 1].state = "Matching"]
    /\ shopifyProduct' = Null
    /\ pc' = "find"
    /\ UNCHANGED <<products, matched, tagged, successfullyTagged, notFound,
                   reports, events, inflight, others>>

\* Lines 318 and 71-79: findProduct sends the search request.
SearchSend ==
    /\ pc = "find"
    /\ events' = Append(events, Event("search", processed, <<>>, <<>>))
    /\ inflight' = inflight \cup {Request("search", processed)}
    /\ pc' = "awaitSearch"
    /\ UNCHANGED <<products, processed, matched, tagged, successfullyTagged,
                   notFound, shopifyProduct, reports, rows, others>>

\* notFound.push(product), lines 335 and 343.
PushNotFoundFront(ledger, product, src) ==
    <<[product |-> product, src |-> src]>> \o ledger

PushNotFound(ledger, product, src) ==
    Append(ledger, [product |-> product, src |-> src])

\* successfullyTagged.push({...shopifyProduct, originalData: product}),
\* lines 327-330.  src is the position of the row in products.
PushTagged(ledger, entry, product, src) ==
    Append(ledger, [product |-> entry, originalData |-> product, src |-> src])

\* Lines 341-344: the catch of the row loop.
CatchRowAborts(search) ==
    /\ notFound' = PushNotFound(notFound, products[processed], processed)
    /\ rows' = [rows EXCEPT ![processed].search = search,
                            ![processed].state = "Error"]
    /\ events' = Append(events, Event("notFound", processed, <<>>, <<>>))
    /\ pc' = "exit"

CatchRow(search) ==
    /\ notFound' = PushNotFound(notFound, products[processed], processed)
    /\ rows' = [rows EXCEPT ![processed].search = search,
                            ![processed].state = "Error"]
    /\ events' = Append(events, Event("notFound", processed, <<>>, <<>>))
    /\ pc' = "loop"

\* Lines 79-112 and 318-336: the search request settles, findProduct
\* returns, and the loop branches on the value.
SearchReturn ==
    /\ pc = "awaitSearch"
    /\ inflight' = inflight \ {Request("search", processed)}
    /\ \E outcome \in SearchOutcomes :
        LET product == products[processed]
            result == findProduct(outcome, product.title, product.vendor,
                                  product.productType)
        IN  IF result.threw
            THEN /\ CatchRow(SearchKind(outcome, product))
                 /\ UNCHANGED <<matched, shopifyProduct>>
            ELSE IF result.node # Null
            THEN /\ shopifyProduct' = result.node
                 /\ matched' = matched + 1
                 /\ rows' = [rows EXCEPT ![processed] =
                                RowInfo(SearchKind(outcome, product), result.node,
                                        "Found")]
                 /\ pc' = "update"
                 /\ UNCHANGED <<notFound, events>>
            ELSE /\ shopifyProduct' = Null
                 /\ notFound' = PushNotFound(notFound, product, processed)
                 /\ rows' = [rows EXCEPT ![processed] =
                                RowInfo(SearchKind(outcome, product), Null,
                                        "NotFound")]
                 /\ events' = Append(events,
                                     Event("notFound", processed, <<>>, <<>>))
                 /\ pc' = "delay"
                 /\ UNCHANGED matched
    /\ UNCHANGED <<products, processed, tagged, successfullyTagged, reports,
                   others>>

\* Lines 324 and 134-153: updateProductTags builds the tag list (changing
\* the entry it was given) and sends the update request.
UpdateSend ==
    /\ pc = "update"
    /\ events' = Append(events, Event("update", processed, shopifyProduct.id,
                                      requestTags(shopifyProduct)))
    /\ shopifyProduct' = productAfterPush(shopifyProduct)
    /\ rows' = [rows EXCEPT ![processed].state = "Tagging"]
    /\ inflight' = inflight \cup {Request("update", processed)}
    /\ pc' = awaitUpdate
    /\ UNCHANGED <<products, processed, matched, tagged, successfullyTagged,
                   notFound, reports, others>>

\* Lines 153-164 and 325-332: the update request settles.
UpdateReturn ==
    /\ pc = "awaitUpdate"
    /\ inflight' = inflight \ {Request("update", processed)}
    /\ \E outcome \in UpdateOutcomes :
        IF updateReturns(outcome)
        THEN /\ tagged' = tagged + 1
             /\ successfullyTagged' =
                    PushTagged(successfullyTagged, shopifyProduct,
                               products[processed], processed)
             /\ rows' = [rows EXCEPT ![processed].state = "Tagged"]
             /\ events' = Append(events, Event("tagged", processed,
                                               shopifyProduct.id, <<>>))
        ELSE /\ rows' = [rows EXCEPT ![processed].state = "TagFailed"]
             /\ UNCHANGED <<tagged, successfullyTagged, events>>
    /\ pc' = "delay"
    /\ UNCHANGED <<products, processed, matched, notFound, shopifyProduct,
                   reports, others>>

\* Line 339: the pacing timer fires.
DelayNeverResolves ==
    /\ pc = "delay"
    /\ pc' = "hung"
    /\ UNCHANGED <<products, processed, matched, tagged, successfullyTagged,
                   notFound, shopifyProduct, reports, rows, events, inflight,
                   others>>

Delay ==
    /\ pc = "delay"
    /\ events' = Append(events, Event("delay", processed, <<>>, <<>>))
    /\ pc' = "loop"
    /\ UNCHANGED <<products, processed, matched, tagged, successfullyTagged,
                   notFound, shopifyProduct, reports, rows, inflight, others>>

\* Lines 315-344: an exception raised while the row's call is awaited
\* leaves the try block and is handled by the catch of the loop; the call
\* has ended, so no request of the row is outstanding any more.
RowThrow ==
    /\ pc \in {"awaitSearch", "awaitUpdate"}
    /\ CatchRow(IF pc = "awaitSearch" THEN "threw" ELSE rows[processed].search)
    /\ inflight' = {r \in inflight : r.row # processed}
    /\ UNCHANGED <<products, processed, matched, tagged, successfullyTagged,
                   shopifyProduct, reports, others>>

\* Lines 354 and 185-238: generateReports after the loop.
ReportInsideLoop ==
    /\ pc = "loop" /\ processed >= 1
    /\ reports' = [generateReports(successfullyTagged, notFound)
                       EXCEPT !.calls = reports.calls + 1]
    /\ events' = Append(events, Event("report", 0, <<>>, <<>>))
    /\ pc' = "done"
    /\ UNCHANGED <<products, processed, matched, tagged, successfullyTagged,
                   notFound, shopifyProduct, rows, inflight, others>>

Report ==
    /\ pc = "loop" /\ processed = Len(products)
    /\ reports' = [generateReports(successfullyTagged, notFound)
                       EXCEPT !.calls = reports.calls + 1]
    /\ events' = Append(events, Event("report", 0, <<>>, <<>>))
    /\ pc' = "done"
    /\ UNCHANGED <<products, processed, matched, tagged, successfullyTagged,
                   notFound, shopifyProduct, rows, inflight, others>>

Next ==
    \/ CheckEmpty \/ NextRow \/ SearchSend \/ SearchReturn \/ UpdateSend
    \/ UpdateReturn \/ Delay \/ RowThrow \/ Report

Spec == Init /\ [][Next]_vars

(***************************************************************************)
(* The run under the scheduling the runtime gives it: the code of the      *)
(* loop runs on when it can, an awaited call ends (its request returns a   *)
(* result or an error), and the pacing timer fires.                        *)
(***************************************************************************)
Fairness ==
    /\ WF_vars(CheckEmpty) /\ WF_vars(NextRow) /\ WF_vars(Report)
    /\ WF_vars(SearchSend) /\ WF_vars(UpdateSend)
    /\ WF_vars(SearchReturn \/ UpdateReturn \/ RowThrow)
    /\ WF_vars(Delay)

SpecLive == Init /\ [][Next]_vars /\ Fairness

(***************************************************************************)
(* Properties.                                                             *)
(***************************************************************************)
\* How many entries of a ledger come from row i.
Count(ledger, i) == Cardinality({k \in 1..Len(ledger) : ledger[k].src = i})

RowIds == 1..Len(products)

IsPrefix(s, t) == Len(s) <= Len(t) /\ SubSeq(t, 1, Len(s)) = s

Occurrences(tags, t) == Cardinality({k \in 1..Len(tags) : tags[k] = t})

\* C1: when the row loop has finished, every row of products is in
\* exactly one of successfullyTagged and notFound, so the two lengths add
\* up to the number of rows.
C1_EveryRowInOneLedger ==
    pc = "done" =>
        /\ \A i \in RowIds :
              Count(successfullyTagged, i) + Count(notFound, i) = 1
        /\ Len(successfullyTagged) + Len(notFound) = Len(products)

\* C2: a row that was matched but whose update failed is in notFound, and
\* only rows whose update succeeded are in successfullyTagged.
C2_TagFailedGoesToNotFound ==
    \A i \in RowIds :
        /\ rows[i].state = "TagFailed" => Count(notFound, i) = 1
        /\ Count(successfullyTagged, i) > 0 => rows[i].state = "Tagged"

\* The three equalities between a catalog entry and a row.
SameFields(entry, product) ==
    /\ entry.title = product.title
    /\ Trim(entry.vendor) = Trim(product.vendor)
    /\ Trim(entry.productType) = Trim(product.productType)

\* C3: an entry returned by findProduct for a row, and so every pair in
\* successfullyTagged, has the row's title exactly and the row's vendor
\* and productType after trimming.
C3_MatchedFieldsEqual ==
    /\ shopifyProduct # Null => SameFields(shopifyProduct, products[processed])
    /\ \A i \in RowIds :
          rows[i].snapshot # Null => SameFields(rows[i].snapshot, products[i])
    /\ \A k \in 1..Len(successfullyTagged) :
          SameFields(successfullyTagged[k].product,
                     successfullyTagged[k].originalData)

\* A pair is in successfullyTagged whose entry has a vendor that equals
\* the row's only after trimming.
C3_Witness ==
    \E k \in 1..Len(successfullyTagged) :
        successfullyTagged[k].product.vendor
            # successfullyTagged[k].originalData.vendor

\* A response that follows the schema: no field of a candidate is null.
WellFormed(edges) ==
    \A k \in 1..Len(edges) :
        edges[k].vendor # NullStr /\ edges[k].productType # NullStr

\* The positions of the candidates that satisfy all three equalities.
Passing(edges, product) ==
    {k \in 1..Len(edges) : SameFields(edges[k], product)}

\* C4: for a response listing candidates, findProduct returns the first
\* candidate in response order that satisfies all three equalities and
\* null when none does.
C4_FirstMatchOrNull ==
    (fPc = "returned" /\ fOutcome.kind = "response"
        /\ WellFormed(fOutcome.edges)) =>
        LET ok == Passing(fOutcome.edges, fRow)
        IN  /\ ~fResult.threw
            /\ ok = {} => fResult.node = Null
            /\ ok # {} =>
                  \E k \in ok : /\ \A j \in ok : k <= j
                                /\ fResult.node = fOutcome.edges[k]

\* findProduct has returned the first of two different candidates that
\* both pass.
C4_Witness ==
    /\ fPc = "returned" /\ fOutcome.kind = "response"
    /\ Len(fOutcome.edges) = 2
    /\ Passing(fOutcome.edges, fRow) = {1, 2}
    /\ fOutcome.edges[1] # fOutcome.edges[2]
    /\ fResult.node = fOutcome.edges[1]

\* Escaping as one pass over the title: a backslash before each quote and
\* each backslash.
RECURSIVE EscapeOnce(_)
EscapeOnce(s) ==
    IF s = <<>> THEN <<>>
    ELSE (IF Head(s) \in {SQ, DQ, BS} THEN <<BS, Head(s)>> ELSE <<Head(s)>>)
             \o EscapeOnce(Tail(s))

\* Reading an escaped text back: a backslash stands for the character
\* that follows it.
RECURSIVE Unescape(_)
Unescape(s) ==
    IF s = <<>> THEN <<>>
    ELSE IF Head(s) = BS /\ Len(s) >= 2
         THEN <<s[2]>> \o Unescape(SubSeq(s, 3, Len(s)))
         ELSE <<Head(s)>> \o Unescape(Tail(s))

\* C5: in the sanitized title each quote is preceded by exactly one
\* inserted backslash, each backslash of the title is doubled, and
\* un-escaping the sanitized title gives the trimmed title back.
C5_EscapeRoundTrip ==
    sPc = "built" =>
        /\ sClean = EscapeOnce(Trim(sTitle))
        /\ Unescape(sClean) = Trim(sTitle)

\* C6: of two successive calls of updateProductTags on the same entry that
\* the service both accepts, the second sends the tag list the first sent,
\* the marker tag is in it once, the persisted list is the same after
\* both, and both return true.
C6_UpdateIdempotent ==
    \A k \in 2..Len(uCalls) :
        (uCalls[k - 1].outcome = "ok" /\ uCalls[k].outcome = "ok") =>
            /\ uCalls[k].tags = uCalls[k - 1].tags
            /\ Occurrences(uCalls[k].tags, TAG_NAME) = 1
            /\ Occurrences(uCalls[k - 1].tags, TAG_NAME) = 1
            /\ uCalls[k].persisted = uCalls[k - 1].persisted
            /\ uPersisted = uCalls[k].persisted
            /\ uCalls[k - 1].success /\ uCalls[k].success

\* Two accepted calls on an entry that had another tag and not the marker.
C6_Witness ==
    /\ Len(uCalls) = 2
    /\ uCalls[1].outcome = "ok" /\ uCalls[2].outcome = "ok"
    /\ uCalls[1].before = <<"sale">>
    /\ uCalls[2].before = <<"sale", TAG_NAME>>
    /\ uPersisted = <<"sale", TAG_NAME>>

\* The tags of an entry as the search returned it.
SnapshotTags(i) ==
    IF rows[i].snapshot.tags.isArray THEN rows[i].snapshot.tags.items
    ELSE <<>>

\* C7: every update request carries all the tags of the snapshot the
\* search returned, in their order, followed by the marker tag when the
\* snapshot did not have it, and nothing else.
C7_RequestCarriesAllTags ==
    \A k \in 1..Len(events) :
        events[k].ev = "update" =>
            LET old == SnapshotTags(events[k].row)
                sent == events[k].tags
            IN  /\ events[k].id = rows[events[k].row].snapshot.id
                /\ IsPrefix(old, sent)
                /\ \/ Includes(old, TAG_NAME) /\ sent = old
                   \/ ~Includes(old, TAG_NAME)
                        /\ sent = Append(old, TAG_NAME)

\* An update request was sent for an entry found with the tag "sale".
C7_Witness ==
    \E k \in 1..Len(events) :
        /\ events[k].ev = "update"
        /\ SnapshotTags(events[k].row) = <<"sale">>
        /\ events[k].tags = <<"sale", TAG_NAME>>

\* C8: the search of a row after the first is preceded by a pacing delay
\* taken after the row before it reached its terminal state.
C8_DelayBeforeNextRow ==
    \A k \in 1..Len(events) :
        (events[k].ev = "search" /\ events[k].row > 1) =>
            /\ k > 1
            /\ events[k - 1].ev = "delay"
            /\ events[k - 1].row = events[k].row - 1

\* The entries of a ledger are in the order of their rows.
InRowOrder(ledger) ==
    \A a, b \in 1..Len(ledger) : a < b => ledger[a].src < ledger[b].src

\* C9: each ledger lists its rows in input order, and a step only ever
\* appends to a ledger.
C9_LedgersAppendInRowOrder ==
    /\ [](InRowOrder(successfullyTagged) /\ InRowOrder(notFound))
    /\ [][/\ IsPrefix(successfullyTagged, successfullyTagged')
          /\ IsPrefix(notFound, notFound')]_vars

\* Two rows are in notFound.
C9_Witness ==
    /\ Len(notFound) >= 2
    /\ notFound[1].src = 1 /\ notFound[2].src = 2

UpdatesFor(i) ==
    {k \in 1..Len(events) : events[k].ev = "update" /\ events[k].row = i}

\* C10: a row whose search request failed or returned a malformed
\* response is recorded as NotFound by the normal path (findProduct
\* returned null), is in notFound once, gets no update request, and the
\* rows after it are processed.
C10_SearchErrorIsNotFound ==
    \A i \in RowIds :
        rows[i].search \in {"error", "malformed"} =>
            /\ rows[i].state = "NotFound"
            /\ rows[i].snapshot = Null
            /\ Count(notFound, i) = 1
            /\ Count(successfullyTagged, i) = 0
            /\ UpdatesFor(i) = {}
            /\ pc = "done" => \A j \in RowIds : rows[j].state # "Pending"

\* The search of the first row failed and the second row was searched.
C10_Witness ==
    /\ Len(products) >= 2
    /\ rows[1].search = "error"
    /\ rows[1].state = "NotFound"
    /\ rows[2].search = "response"

Terminal == {"Tagged", "TagFailed", "NotFound", "Error"}

\* C11: a row whose processing raised an exception is in notFound exactly
\* once and in no other ledger, the run is not aborted by it, and at the
\* end of the run every row has been processed.
C11_RowErrorIsContained ==
    \A i \in RowIds :
        rows[i].state = "Error" =>
            /\ Count(notFound, i) = 1
            /\ Count(successfullyTagged, i) = 0
            /\ pc \in {"loop", "find", "awaitSearch", "update", "awaitUpdate",
                       "delay", "done"}
            /\ pc = "done" =>
                  /\ processed = Len(products)
                  /\ \A j \in RowIds : rows[j].state \in Terminal

\* The first row raised an exception and the second row was tagged.
C11_Witness ==
    /\ Len(products) >= 2
    /\ rows[1].state = "Error"
    /\ rows[2].state = "Tagged"
    /\ pc = "done"

C13_ReportsOnlyAfterAllRows ==
    /\ reports.calls <= 1
    /\ reports.calls = 1 =>
          /\ pc = "done" /\ processed = Len(products) /\ inflight = {}
          /\ \A i \in RowIds : rows[i].state \in Terminal
    /\ reports.calls = 0 => reports = NoReports
    /\ \A k \in 1..Len(events) :
          events[k].ev = "report" => k = Len(events)

\* Both report files were written after two rows.
C13_Witness ==
    /\ Len(products) = 2 /\ reports.calls = 1
    /\ reports.taggedFile /\ reports.notFoundFile

SummaryMatchesLedgers ==
    /\ reports.calls = 1
    /\ reports.summaryTag = TAG_NAME
    /\ reports.summaryTagged = Len(successfullyTagged)
    /\ reports.summaryNotFound = Len(notFound)
    /\ (Len(successfullyTagged) = 0 /\ Len(notFound) = 0) =>
          (~reports.taggedFile /\ ~reports.notFoundFile)

\* C14 as stated: whenever the run has completed normally the summary has
\* been printed with the lengths of the two ledgers, and with no file when
\* both are empty.
C14_SummaryWheneverRunCompletes ==
    pc \in {"done", "exit"} => SummaryMatchesLedgers

\* C14 amended: a run over at least one row ends with the summary printed
\* with the lengths of the two ledgers (and with no file when both are
\* empty); a run over no row ends at line 303 with no summary and no
\* file.
C14_SummaryWhenRowsExist ==
    /\ pc = "done" => (Len(products) > 0 /\ SummaryMatchesLedgers)
    /\ pc = "exit" => (Len(products) = 0 /\ reports = NoReports)

\* A run over rows ended with both ledgers empty.
C14_Witness ==
    /\ pc = "done" /\ Len(products) > 0
    /\ Len(successfullyTagged) = 0 /\ Len(notFound) = 0
    /\ reports.summaryTagged = 0 /\ reports.summaryNotFound = 0

\* C15: the tagged file is written exactly when successfullyTagged is not
\* empty and the not-found file exactly when notFound is not empty, each
\* with one row per ledger entry, and every not-found row has an empty
\* gid.
C15_FileIffLedgerNotEmpty ==
    /\ reports.taggedFile => Len(successfullyTagged) > 0
    /\ reports.notFoundFile => Len(notFound) > 0
    /\ pc = "done" =>
          /\ reports.taggedFile = (Len(successfullyTagged) > 0)
          /\ reports.notFoundFile = (Len(notFound) > 0)
          /\ Len(reports.taggedRows) = Len(successfullyTagged)
          /\ Len(reports.notFoundRows) = Len(notFound)
    /\ \A k \in 1..Len(reports.notFoundRows) :
          /\ reports.notFoundRows[k].gid = <<>>
          /\ reports.notFoundRows[k].title = notFound[k].product.title

\* Only the tagged file was written.
C15_Witness ==
    /\ pc = "done"
    /\ reports.taggedFile /\ ~reports.notFoundFile
    /\ Len(reports.taggedRows) = 1
    /\ reports.taggedRows[1].gid = <<"1">>

IsRequest(k) == events[k].ev \in {"search", "update"}

\* C16: between any two consecutive requests sent to the catalog service,
\* search or update, a pacing delay elapses.
C16_DelayBetweenRequests ==
    \A a, b \in 1..Len(events) :
        (a < b /\ IsRequest(a) /\ IsRequest(b)
            /\ \A m \in (a + 1)..(b - 1) : ~IsRequest(m)) =>
            \E d \in (a + 1)..(b - 1) : events[d].ev = "delay"

\* The tags a ledger entry carries.
RecordedTags(entry) == IF entry.tags.isArray THEN entry.tags.items ELSE <<>>

\* C17: every entry of successfullyTagged carries the marker tag and all
\* the tags the entry had when the search returned it.
C17_TaggedEntryCarriesMarker ==
    \A k \in 1..Len(successfullyTagged) :
        LET recorded == RecordedTags(successfullyTagged[k].product)
            old == SnapshotTags(successfullyTagged[k].src)
        IN  /\ Includes(recorded, TAG_NAME)
            /\ \A j \in 1..Len(old) : Includes(recorded, old[j])

SearchesFor(i) ==
    {k \in 1..Len(events) : events[k].ev = "search" /\ events[k].row = i}

\* C18: a row gets one search request and at most one update request; an
\* update request follows the search of its row, which returned an entry
\* with the row's three fields, and carries that entry's id; a row that
\* was not found gets no update request.
C18_OnlyMatchedEntriesAreUpdated ==
    /\ \A i \in RowIds :
          /\ Cardinality(SearchesFor(i)) <= 1
          /\ Cardinality(UpdatesFor(i)) <= 1
          /\ rows[i].state \in Terminal => Cardinality(SearchesFor(i)) = 1
          /\ rows[i].state = "NotFound" => UpdatesFor(i) = {}
    /\ \A k \in 1..Len(events) :
          events[k].ev = "update" =>
              LET i == events[k].row
              IN  /\ rows[i].snapshot # Null
                  /\ SameFields(rows[i].snapshot, products[i])
                  /\ events[k].id = rows[i].snapshot.id
                  /\ \E j \in SearchesFor(i) : j < k

\* The first row was not found and got no update; the second row got one
\* search and one update.
C18_Witness ==
    /\ Len(products) = 2 /\ pc = "done"
    /\ rows[1].state = "NotFound" /\ UpdatesFor(1) = {}
    /\ Cardinality(SearchesFor(2)) = 1 /\ Cardinality(UpdatesFor(2)) = 1

\* The positions of the headers that contain a word, in any letter case.
KeysWith(row, word) ==
    {k \in 1..Len(row) : includes(toLowerCase(row[k].key), word)}

\* The value under the first header that contains the word is not empty
\* once trimmed.
HasValue(row, word) ==
    \E k \in KeysWith(row, word) :
        /\ \A j \in KeysWith(row, word) : k <= j
        /\ Trim(row[k].value) # <<>>

\* C19: the handler produces a row for a record exactly when a header
\* with "title", one with "vendor" and one with "type" exist and the
\* values under the first of each are non-empty after trimming; the row
\* it produces has no empty field.
C19_RowIffThreeValues ==
    nPc = "read" =>
        /\ Len(nProducts) = 1 <=>
              (/\ HasValue(nRow, W_title) /\ HasValue(nRow, W_vendor)
               /\ HasValue(nRow, W_type))
        /\ \A k \in 1..Len(nProducts) :
              /\ nProducts[k].title # <<>>
              /\ nProducts[k].vendor # <<>>
              /\ nProducts[k].productType # <<>>

\* C20: a run over at least one row leads to the end of the run: every
\* row is in a terminal state, processed equals the number of rows, and
\* generateReports has run, once and never more than once.
C20_RunTerminates ==
    /\ (Len(products) > 0) ~>
          (/\ pc = "done"
           /\ processed = Len(products)
           /\ reports.calls = 1
           /\ \A i \in RowIds : rows[i].state \in Terminal)
    /\ [](reports.calls <= 1)

\* A run over two rows has ended.
C20_Witness ==
    /\ Len(products) = 2 /\ processed = 2
    /\ pc = "done" /\ reports.calls = 1
    /\ rows[1].state = "TagFailed" /\ rows[2].state = "NotFound"

====
